---- MODULE Spec2Model ----
(***************************************************************************)
(* A model of motion's versioned transform executor and pipeline runner    *)
(* (src/motion/execute.py) and of the store's trigger registry             *)
(* (src/motion/store.py).                                                  *)
(*                                                                         *)
(* Three specifications share the module:                                  *)
(*   Spec       one TransformExecutor driven by fit / infer / versionState *)
(*   SpecPipe   a PipelineExecutor: addTransform / executemany             *)
(*   SpecStore  a Store's trigger registry: addTrigger / deleteTrigger /   *)
(*              start / stop                                               *)
(* Each specification leaves the variables of the other two at their       *)
(* initial values.                                                         *)
(***************************************************************************)
EXTENDS Integers, Sequences, FiniteSets, TLC

(***************************************************************************)
(* Bounds of the model.                                                    *)
(***************************************************************************)
\* ids are 0..MaxId
MaxId == 2
\* max_staleness is drawn from 0..MaxStale at construction
MaxStale == 1
\* the store's ids-before answer holds at most MaxTrain ids
MaxTrain == 1

Ids == 0..MaxId

\* Python's None, for the fields and locals that hold an id or None
None == -1

\* the opaque values a transform's state can take
StateVals == {"a", "b"}

\* marks an id that is no key of state_history
Absent == "absent"

(***************************************************************************)
(* TransformExecutor: the state of one executor and of the call in         *)
(* progress on it.                                                         *)
(***************************************************************************)
VARIABLES
  state_history,  \* self.state_history: id -> snapshot, Absent when no key
  step,           \* self.step: the fit cursor, None or an id
  max_staleness,  \* self.max_staleness
  tstate,         \* self.transform.state: a reference (see Own, Snap)
  pc,             \* where the executor is: "idle", or inside a callback of
                  \* the transform: "fit" (transform.fit called by fit),
                  \* "infer_fit" (transform.fit called by infer's fit),
                  \* "infer" (transform.infer)
  op,             \* the executor method called last: "none", "fit", "infer",
                  \* "versionState"
  arg,            \* the id passed to the fit or infer called last
  version,        \* infer's local `version`
  old_state,      \* infer's local `old_state`
  trained,        \* the train ids whose records fit handed to transform.fit
  outcome,        \* how the call named by op ended: "running", "ok", or the
                  \* exception raised
  nfit,           \* how often the call named by op has entered fit
  ranfit,         \* whether the call named by op reached transform.fit
  ids_before,     \* what the store's idsBefore answered to the last fit
  fitted          \* whether any fit has reached transform.fit so far

teVars == <<state_history, step, max_staleness, tstate, pc, op, arg, version,
            old_state, trained, outcome, nfit, ranfit, ids_before,
            fitted>>

(***************************************************************************)
(* PipelineExecutor: the registered executors, the dependency graph, the   *)
(* graphlib sorter and the position of the executemany call in progress.   *)
(***************************************************************************)
VARIABLES
  transforms,     \* self.transforms: name -> executor, NoExecutor when no key
  transform_dag,  \* self.transform_dag: the (name, dependencies) items, in
                  \* the dict's insertion order
  ts,             \* self.ts: the TopologicalSorter of the last executemany
  p_pc,           \* "idle", "loop" (at the while / for-node headers, lines
                  \* 139-140) or "node" (in the for-id loop, lines 144-147)
  p_ids,          \* executemany's argument ids
  p_out,          \* the tuple get_ready returned, being iterated
  p_node_i,       \* position in p_out of the node being processed
  p_id_i,         \* position in p_ids of the next id of that node
  results,        \* executemany's local results: id -> result
  p_op,           \* the pipeline method called last
  p_outcome,      \* how it ended: "running", "ok" or the exception raised
  p_done,         \* the nodes ts.done was called on by this executemany
  p_inferred,     \* per node, the ids infer was invoked with, in order, by
                  \* this executemany
  p_transforms0,  \* transforms when this executemany was entered
  p_adds,         \* addTransform calls made so far
  p_runs,         \* executemany calls made so far
  p_one           \* the id executeone passed on to this executemany, None
                  \* when executemany was called directly

pipeVars == <<transforms, transform_dag, ts, p_pc, p_ids, p_out, p_node_i,
              p_id_i, results, p_op, p_outcome, p_done, p_inferred,
              p_transforms0, p_adds, p_runs, p_one>>

(***************************************************************************)
(* Store: the trigger registry and the cron workers.                       *)
(***************************************************************************)
VARIABLES
  trigger_names,  \* self.trigger_names: name -> key list, has = FALSE when no key
  trigger_fns,    \* self.trigger_fns: name -> handler, has = FALSE when no key
  triggers,       \* self.triggers: key -> list of TriggerFn, has = FALSE
                  \* when no key (the direct-dispatch index)
  cron_triggers,  \* self.cron_triggers: the same for cron expressions
  listening,      \* self._listening
  cron_threads,   \* self.cron_threads: not set until start() sets it, then
                  \* cron expression -> list of workers
  workers,        \* every TaskThread started and not yet terminated
  n_starts,       \* start() calls made so far
  s_op,           \* the store method called last: its name m, the trigger
                  \* name it was given and, for addTrigger, whether the key
                  \* list held a key of BadKeys
  s_outcome,      \* how it ended: "ok", "noop" or the exception raised
  s_result,       \* what it returned, NoReturn when it returned nothing
  s_version,      \* the version addTrigger computed (line 244), None when the
                  \* call did not come to it
  logs            \* the logs table as line 242 reads it: trigger name -> the
                  \* greatest trigger_version logged, None when no row

storeVars == <<trigger_names, trigger_fns, triggers, cron_triggers, listening,
               cron_threads, workers, n_starts, s_op, s_outcome, s_result,
               s_version, logs>>

vars == <<teVars, pipeVars, storeVars>>

\* A reference to an object the transform owns, holding value val.
Own(val) == [k |-> "own", val |-> val, v |-> None]
\* A reference to the very object stored at state_history[v].
Snap(v) == [k |-> "snap", val |-> Absent, v |-> v]

Keys(h) == {v \in Ids : h[v] # Absent}

EmptyHistory == [v \in Ids |-> Absent]

RECURSIVE SetMax(_)
SetMax(S) ==
  LET x == CHOOSE y \in S : TRUE
  IN IF S = {x} THEN x
     ELSE LET m == SetMax(S \ {x}) IN IF x > m THEN x ELSE m

\* execute.py 91-98: max([v for v in keys if v <= id and v >= id - s] or [None])
SelectVersion(h, id, s) ==
  LET cand == {v \in Keys(h) : v <= id /\ v >= id - s}
  IN IF cand = {} THEN None ELSE SetMax(cand)

\* execute.py 100: `if not version` is true of None and of 0
NeedsFit(ver) == ver = None \/ ver = 0

\* the lists the store's idsBefore may answer: distinct ids, any of them
TrainIdLists ==
  {q \in UNION {[1..n -> Ids] : n \in 0..MaxTrain} :
     \A i, j \in 1..Len(q) : i # j => q[i] # q[j]}

InList(x, q) == \E i \in 1..Len(q) : q[i] = x

\* no reference: a local that is not in scope
NoRef == [k |-> "none", val |-> Absent, v |-> None]

\* versionState stores a fresh deep copy at state_history[at]; a reference to
\* the object stored there before keeps that object, now owned by its holder
Detach(ref, at, h) ==
  IF ref.k = "snap" /\ ref.v = at THEN Own(h[at]) ELSE ref

\* a fit without the assertion of line 37
TrainsOnSelfNever(id, train_ids) == FALSE

\* execute.py 37: assert id not in train_ids
TrainsOnSelf(id, train_ids) == InList(id, train_ids)

\* execute.py 39-67: one feature record and one label record per train id, in
\* the order of train_ids; a record is named by the id it was read from
TrainingSet(train_ids) == [i \in 1..Len(train_ids) |-> train_ids[i]]

(***************************************************************************)
(* execute.py 32-72, fit(id), up to the call of transform.fit.  train_ids  *)
(* is the store's idsBefore answer, typeOk whether transform._check_type   *)
(* accepts the records.  inPc is the callback position to continue in.     *)
(***************************************************************************)
FitEnter(id, train_ids, typeOk, inPc) ==
  /\ ids_before' = train_ids
  /\ nfit' = 1
  /\ IF TrainsOnSelf(id, train_ids)
       THEN /\ outcome' = "AssertionError"
            /\ pc' = "idle"
            /\ ranfit' = FALSE
            /\ trained' = <<>>
            /\ UNCHANGED <<step, fitted>>
       ELSE IF ~typeOk
       THEN /\ outcome' = "TypeError"
            /\ pc' = "idle"
            /\ ranfit' = FALSE
            /\ trained' = <<>>
            /\ UNCHANGED <<step, fitted>>
       ELSE /\ step' = id
            /\ trained' = TrainingSet(train_ids)
            /\ outcome' = "running"
            /\ pc' = inPc
            /\ ranfit' = TRUE
            /\ fitted' = TRUE

\* a call that does not come to fit
NoFit ==
  /\ nfit' = 0
  /\ ranfit' = FALSE
  /\ trained' = <<>>
  /\ ids_before' = <<>>
  /\ UNCHANGED <<step, fitted>>

\* execute.py 106-107: old_state = transform.state;
\* transform.state = state_history[version] (the stored object, not a copy)
Substitute(ver) ==
  /\ old_state' = tstate
  /\ tstate' = Snap(ver)

\* execute.py 107: state_history[version] raises KeyError when version is no key
HasKey(h, ver) == h[ver] # Absent

\* execute.py 26: versionState raises when self.step is None
CursorSet(st) == st # None

\* execute.py 30: self.state_history[self.step] = copy.deepcopy(state)
Record(h, st, s) == [h EXCEPT ![st] = s]

\* execute.py 110: self.transform.state = old_state
Restore(ref, old) == old

\* the call is over: infer's locals are gone
Leave(how) ==
  /\ pc' = "idle"
  /\ outcome' = how
  /\ version' = None
  /\ old_state' = NoRef

(***************************************************************************)
(* The executor after TransformExecutor.__init__ (execute.py 16-23).       *)
(***************************************************************************)
TEInit ==
  /\ state_history = EmptyHistory
  /\ step = None
  /\ max_staleness \in 0..MaxStale
  /\ tstate = Own("a")
  /\ pc = "idle"
  /\ op = "none"
  /\ arg = None
  /\ version = None
  /\ old_state = NoRef
  /\ trained = <<>>
  /\ outcome = "ok"
  /\ nfit = 0
  /\ ranfit = FALSE
  /\ ids_before = <<>>
  /\ fitted = FALSE

(***************************************************************************)
(* fit(id) called on the idle executor: execute.py 32-72 up to the call of *)
(* transform.fit, which runs from pc = "fit" on.                           *)
(***************************************************************************)
Fit(id, train_ids, typeOk) ==
  /\ pc = "idle"
  /\ op' = "fit"
  /\ arg' = id
  /\ FitEnter(id, train_ids, typeOk, "fit")
  /\ UNCHANGED <<state_history, max_staleness, tstate, version, old_state>>
  /\ UNCHANGED <<pipeVars, storeVars>>

(***************************************************************************)
(* infer(id) called on the idle executor: execute.py 74-107.  typeOk is    *)
(* whether _check_type accepts the features (line 88); train_ids and       *)
(* fitTypeOk are the inputs of the fit that line 102 may call.             *)
(***************************************************************************)
Infer(id, typeOk, train_ids, fitTypeOk) ==
  /\ pc = "idle"
  /\ op' = "infer"
  /\ arg' = id
  /\ IF ~typeOk
       THEN /\ Leave("TypeError")
            /\ NoFit
            /\ UNCHANGED tstate
       ELSE LET ver == SelectVersion(state_history, id, max_staleness)
            IN IF NeedsFit(ver)
               THEN /\ FitEnter(id, train_ids, fitTypeOk, "infer_fit")
                    /\ UNCHANGED <<tstate, version, old_state>>
               ELSE /\ NoFit
                    /\ version' = ver
                    /\ Substitute(ver)
                    /\ pc' = "infer"
                    /\ outcome' = "running"
  /\ UNCHANGED <<state_history, max_staleness>>
  /\ UNCHANGED <<pipeVars, storeVars>>

(***************************************************************************)
(* versionState(state), execute.py 25-30, called by the transform from a   *)
(* callback or by anyone while the executor is idle.                       *)
(***************************************************************************)
VersionState(s) ==
  /\ IF CursorSet(step)
       THEN /\ state_history' = Record(state_history, step, s)
            /\ tstate' = Detach(tstate, step, state_history)
            /\ old_state' = Detach(old_state, step, state_history)
            /\ outcome' = IF pc = "idle" THEN "ok" ELSE outcome
            /\ UNCHANGED <<pc, version>>
       ELSE /\ Leave("ValueError")
            /\ UNCHANGED <<state_history, tstate>>
  /\ IF pc = "idle"
       THEN /\ op' = "versionState"
            /\ arg' = None
            /\ NoFit
       ELSE UNCHANGED <<op, arg, nfit, ranfit, trained, ids_before, step,
                        fitted>>
  /\ UNCHANGED max_staleness
  /\ UNCHANGED <<pipeVars, storeVars>>

\* the transform's code, inside fit or infer, binds self.state to a new object
TransformSetState(s) ==
  /\ pc # "idle"
  /\ tstate' = Own(s)
  /\ UNCHANGED <<state_history, step, max_staleness, pc, op, arg, version,
                 old_state, trained, outcome, nfit, ranfit, ids_before,
                 fitted>>
  /\ UNCHANGED <<pipeVars, storeVars>>

\* the transform's code changes the object self.state refers to in place,
\* while that object is the one line 107 took out of state_history
MutateActiveState(s) ==
  /\ pc # "idle"
  /\ tstate.k = "snap"
  /\ state_history' = [state_history EXCEPT ![tstate.v] = s]
  /\ UNCHANGED <<step, max_staleness, tstate, pc, op, arg, version,
                 old_state, trained, outcome, nfit, ranfit, ids_before,
                 fitted>>
  /\ UNCHANGED <<pipeVars, storeVars>>

(***************************************************************************)
(* transform.fit returns (execute.py 72).  A fit called by infer goes on   *)
(* with execute.py 103-107.                                                *)
(***************************************************************************)
TransformFitReturn ==
  /\ pc \in {"fit", "infer_fit"}
  /\ IF pc = "fit"
       THEN /\ Leave("ok")
            /\ UNCHANGED tstate
       ELSE IF HasKey(state_history, arg)
       THEN /\ version' = arg
            /\ Substitute(arg)
            /\ pc' = "infer"
            /\ UNCHANGED outcome
       ELSE /\ Leave("KeyError")
            /\ UNCHANGED tstate
  /\ UNCHANGED <<state_history, step, max_staleness, op, arg, trained, nfit,
                 ranfit, ids_before, fitted>>
  /\ UNCHANGED <<pipeVars, storeVars>>

\* transform.fit raises: the exception leaves fit, and infer when it called fit
TransformFitRaise ==
  /\ pc \in {"fit", "infer_fit"}
  /\ Leave("TransformError")
  /\ UNCHANGED <<state_history, step, max_staleness, tstate, op, arg, trained,
                 nfit, ranfit, ids_before, fitted>>
  /\ UNCHANGED <<pipeVars, storeVars>>

\* transform.infer returns: execute.py 109-111
TransformInferReturn ==
  /\ pc = "infer"
  /\ tstate' = Restore(tstate, old_state)
  /\ Leave("ok")
  /\ UNCHANGED <<state_history, step, max_staleness, op, arg, trained, nfit,
                 ranfit, ids_before, fitted>>
  /\ UNCHANGED <<pipeVars, storeVars>>

\* transform.infer raises at execute.py 109: line 110 is not reached
TransformInferRaise ==
  /\ pc = "infer"
  /\ Leave("TransformError")
  /\ UNCHANGED <<state_history, step, max_staleness, tstate, op, arg, trained,
                 nfit, ranfit, ids_before, fitted>>
  /\ UNCHANGED <<pipeVars, storeVars>>

(***************************************************************************)
(* PipelineExecutor (execute.py 114-152) over graphlib.TopologicalSorter.  *)
(***************************************************************************)
\* the transform classes a pipeline can be given, by __name__
Names == {"A", "B", "C"}

\* addTransform calls made at most
MaxAdds == 3
\* executemany calls made at most
MaxRuns == 1
\* executemany is given at most MaxBatch ids, each in 0..MaxPipeId
MaxBatch == 2
MaxPipeId == 1

Batches == UNION {[1..n -> 0..MaxPipeId] : n \in 0..MaxBatch}

\* execute.py 16: max_staleness: int = 0, which addTransform leaves in place
DefaultStaleness == 0

\* graphlib's marks in a node's npredecessors: passed out, done
NODE_OUT == -1
NODE_DONE == -2

Range(q) == {q[i] : i \in 1..Len(q)}

Perms(S) ==
  {q \in [1..Cardinality(S) -> S] :
     \A i, j \in 1..Cardinality(S) : i # j => q[i] # q[j]}

NoExecutor == [reg |-> FALSE, state_history |-> EmptyHistory, step |-> None]
\* execute.py 122-124: TransformExecutor(transform, self.store)
NewExecutor == [reg |-> TRUE, state_history |-> EmptyHistory, step |-> None]

NoResult == [node |-> "none", id |-> None, version |-> None]
EmptyResults == [i \in Ids |-> NoResult]

DagKeys(d) == {d[i].name : i \in 1..Len(d)}
DagDeps(d, n) == UNION {d[i].deps : i \in {j \in 1..Len(d) : d[j].name = n}}

\* execute.py 125-127: self.transform_dag[name] = {dep names}; a key that is
\* already there keeps its place in the dict
DagPut(d, name, deps) ==
  IF name \in DagKeys(d)
  THEN [i \in 1..Len(d) |->
          IF d[i].name = name THEN [name |-> name, deps |-> deps] ELSE d[i]]
  ELSE Append(d, [name |-> name, deps |-> deps])

(***************************************************************************)
(* TopologicalSorter(graph), execute.py 135: add(node, *predecessors) for  *)
(* each item, in the dict's order.  A node enters the sorter's node table  *)
(* when it is first seen; the predecessors of one item are a Python set,   *)
(* whose iteration order is not fixed, so every order of the new ones is   *)
(* possible.                                                               *)
(***************************************************************************)
RECURSIVE NodeOrdersFrom(_, _, _)
NodeOrdersFrom(d, i, order) ==
  IF i > Len(d) THEN {order}
  ELSE LET o1 == IF d[i].name \in Range(order) THEN order
                 ELSE Append(order, d[i].name)
           new == d[i].deps \ Range(o1)
       IN UNION {NodeOrdersFrom(d, i + 1, o1 \o q) : q \in Perms(new)}

NodeOrders(d) == NodeOrdersFrom(d, 1, <<>>)

\* the sorter after its constructor: per node the number of predecessors and
\* the successors, in the order they were added
NewSorter(d, order) ==
  [order |-> order,
   npred |-> [n \in Names |-> Cardinality(DagDeps(d, n))],
   succ |-> [n \in Names |->
               SelectSeq([i \in 1..Len(d) |-> d[i].name],
                         LAMBDA m : n \in DagDeps(d, m))],
   ready |-> <<>>,
   npassedout |-> 0,
   nfinished |-> 0]

\* the nodes reachable from the set S along successor edges, S included
RECURSIVE ReachFrom(_, _)
ReachFrom(t, S) ==
  LET next == S \cup UNION {Range(t.succ[n]) : n \in S}
  IN IF next = S THEN S ELSE ReachFrom(t, next)

\* graphlib's _find_cycle: some node reaches itself along successor edges
TsFindCycle(t) ==
  \E n \in Range(t.order) : n \in ReachFrom(t, Range(t.succ[n]))

\* graphlib's prepare(), execute.py 136: the nodes without predecessors are
\* ready, in node-table order
TsPrepare(t) ==
  [t EXCEPT !.ready = SelectSeq(t.order, LAMBDA n : t.npred[n] = 0)]

\* an is_active() that forgets the nodes that are ready and not handed out
TsIsActiveUnfinished(t) == t.nfinished < t.npassedout

\* graphlib's is_active(), execute.py 139
TsIsActive(t) == t.nfinished < t.npassedout \/ t.ready # <<>>

\* graphlib's get_ready(), execute.py 140: hands out the ready nodes
TsGetReady(t) ==
  [t EXCEPT !.npred = [n \in Names |->
                         IF n \in Range(t.ready) THEN NODE_OUT ELSE t.npred[n]],
            !.npassedout = t.npassedout + Len(t.ready),
            !.ready = <<>>]

\* a done(node) that readies every successor, whatever it still waits for
TsReadyAfterAny(np) == TRUE

\* graphlib's done(node), execute.py 147: each successor loses a predecessor
\* and is ready when it has none left
TsReadyAfter(np) == np = 0

TsDone(t, node) ==
  LET np == [n \in Names |->
               IF n = node THEN NODE_DONE
               ELSE IF n \in Range(t.succ[node]) THEN t.npred[n] - 1
               ELSE t.npred[n]]
  IN [t EXCEPT !.npred = np,
               !.ready = t.ready \o SelectSeq(t.succ[node],
                                              LAMBDA n : TsReadyAfter(np[n])),
               !.nfinished = t.nfinished + 1]

NoSorter == NewSorter(<<>>, <<>>)

(***************************************************************************)
(* One whole TransformExecutor.infer(id) call (execute.py 74-111) on the   *)
(* executor te of node, as executemany makes it.  kind says what the       *)
(* transform and the store do in it:                                       *)
(*   "record"     transform.fit, when called, records val once             *)
(*   "norecord"   transform.fit, when called, records nothing              *)
(*   "selftrain"  the store's idsBefore answer holds id itself             *)
(*   "raise"      transform.infer raises                                   *)
(* The value is the executor afterwards, how the call ended and, when it   *)
(* returned, its result.                                                   *)
(***************************************************************************)
Kinds == {"record", "norecord", "selftrain", "raise"}

InferCall(te, node, id, kind, val) ==
  LET ver == SelectVersion(te.state_history, id, DefaultStaleness)
      fitted_te ==
        [te EXCEPT !.step = id,
                   !.state_history =
                      IF kind = "norecord" THEN te.state_history
                      ELSE Record(te.state_history, id, val)]
      res(v) == [node |-> node, id |-> id, version |-> v]
  IN IF NeedsFit(ver)
     THEN IF kind = "selftrain"
          THEN [te |-> te, outcome |-> "AssertionError", result |-> NoResult]
          ELSE IF ~HasKey(fitted_te.state_history, id)
          THEN [te |-> fitted_te, outcome |-> "KeyError", result |-> NoResult]
          ELSE IF kind = "raise"
          THEN [te |-> fitted_te, outcome |-> "TransformError",
                result |-> NoResult]
          ELSE [te |-> fitted_te, outcome |-> "ok", result |-> res(id)]
     ELSE IF kind = "raise"
          THEN [te |-> te, outcome |-> "TransformError", result |-> NoResult]
          ELSE [te |-> te, outcome |-> "ok", result |-> res(ver)]

PipeInit ==
  /\ transforms = [n \in Names |-> NoExecutor]
  /\ transform_dag = <<>>
  /\ ts = NoSorter
  /\ p_pc = "idle"
  /\ p_ids = <<>>
  /\ p_out = <<>>
  /\ p_node_i = 0
  /\ p_id_i = 0
  /\ results = EmptyResults
  /\ p_op = "none"
  /\ p_outcome = "ok"
  /\ p_done = {}
  /\ p_inferred = [n \in Names |-> <<>>]
  /\ p_transforms0 = [n \in Names |-> NoExecutor]
  /\ p_adds = 0
  /\ p_runs = 0
  /\ p_one = None

\* addTransform(transform, dependencies), execute.py 121-127
AddTransform(name, deps) ==
  /\ p_pc = "idle"
  /\ p_adds < MaxAdds
  /\ p_runs < MaxRuns
  /\ p_adds' = p_adds + 1
  /\ transforms' = [transforms EXCEPT ![name] = NewExecutor]
  /\ transform_dag' = DagPut(transform_dag, name, deps)
  /\ p_op' = "addTransform"
  /\ p_outcome' = "ok"
  /\ UNCHANGED <<ts, p_pc, p_ids, p_out, p_node_i, p_id_i, results, p_done,
                 p_inferred, p_transforms0, p_runs, p_one>>
  /\ UNCHANGED <<teVars, storeVars>>

\* a prepare() that skips the cycle search
PrepareNeverRaises(t) == FALSE

\* graphlib's prepare() raises CycleError when _find_cycle finds a cycle
PrepareRaises(t) == TsFindCycle(t)

(***************************************************************************)
(* executemany(ids), execute.py 129-137: the sorter is built and prepared. *)
(* order is the order in which the nodes entered the sorter's node table.  *)
(***************************************************************************)
ExecuteManyFrom(ids, order, one) ==
  /\ p_pc = "idle"
  /\ p_one' = one
  /\ p_runs < MaxRuns
  /\ p_runs' = p_runs + 1
  /\ order \in NodeOrders(transform_dag)
  /\ p_op' = "executemany"
  /\ p_ids' = ids
  /\ p_done' = {}
  /\ p_inferred' = [n \in Names |-> <<>>]
  /\ p_transforms0' = transforms
  /\ p_out' = <<>>
  /\ p_node_i' = 0
  /\ p_id_i' = 0
  /\ results' = EmptyResults
  /\ LET t == TsPrepare(NewSorter(transform_dag, order))
     IN /\ ts' = t
        /\ IF PrepareRaises(t)
             THEN p_pc' = "idle" /\ p_outcome' = "CycleError"
             ELSE p_pc' = "loop" /\ p_outcome' = "running"
  /\ UNCHANGED <<transforms, transform_dag, p_adds>>
  /\ UNCHANGED <<teVars, storeVars>>

\* executemany(ids) called directly
ExecuteMany(ids, order) == ExecuteManyFrom(ids, order, None)

\* executeone(id), execute.py 151-152: executemany([id]), then [id] of what it
\* returns
ExecuteOne(id, order) == ExecuteManyFrom(<<id>>, order, id)

\* execute.py 139-140: the nodes handed out are all processed and the sorter
\* is active: get_ready() hands out the next ones
GetReady ==
  /\ p_pc = "loop"
  /\ p_node_i = Len(p_out)
  /\ TsIsActive(ts)
  /\ p_out' = ts.ready
  /\ p_node_i' = 0
  /\ ts' = TsGetReady(ts)
  /\ UNCHANGED <<transforms, transform_dag, p_pc, p_ids, p_id_i, results,
                 p_op, p_outcome, p_done, p_inferred, p_transforms0, p_adds,
                 p_runs, p_one>>
  /\ UNCHANGED <<teVars, storeVars>>

\* execute.py 140-142: the next node handed out; self.transforms[node] raises
\* KeyError for a node that is no registered transform
TakeNode ==
  /\ p_pc = "loop"
  /\ p_node_i < Len(p_out)
  /\ p_node_i' = p_node_i + 1
  /\ p_id_i' = 0
  /\ IF transforms[p_out[p_node_i + 1]].reg
       THEN p_pc' = "node" /\ UNCHANGED p_outcome
       ELSE p_pc' = "idle" /\ p_outcome' = "KeyError"
  /\ UNCHANGED <<transforms, transform_dag, ts, p_ids, p_out, results, p_op,
                 p_done, p_inferred, p_transforms0, p_adds, p_runs, p_one>>
  /\ UNCHANGED <<teVars, storeVars>>

\* execute.py 144-145: results[id] = te.infer(id) for the next id of the batch
InferNext(kind, val) ==
  /\ p_pc = "node"
  /\ p_id_i < Len(p_ids)
  /\ LET node == p_out[p_node_i]
         id == p_ids[p_id_i + 1]
         r == InferCall(transforms[node], node, id, kind, val)
     IN /\ transforms' = [transforms EXCEPT ![node] = r.te]
        /\ p_inferred' = [p_inferred EXCEPT ![node] = Append(@, id)]
        /\ IF r.outcome = "ok"
             THEN /\ results' = [results EXCEPT ![id] = r.result]
                  /\ p_id_i' = p_id_i + 1
                  /\ UNCHANGED <<p_pc, p_outcome>>
             ELSE /\ p_pc' = "idle"
                  /\ p_outcome' = r.outcome
                  /\ UNCHANGED <<results, p_id_i>>
  /\ UNCHANGED <<transform_dag, ts, p_ids, p_out, p_node_i, p_op, p_done,
                 p_transforms0, p_adds, p_runs, p_one>>
  /\ UNCHANGED <<teVars, storeVars>>

\* execute.py 147: the batch is through for this node: self.ts.done(node)
NodeDone ==
  /\ p_pc = "node"
  /\ p_id_i = Len(p_ids)
  /\ ts' = TsDone(ts, p_out[p_node_i])
  /\ p_done' = p_done \cup {p_out[p_node_i]}
  /\ p_pc' = "loop"
  /\ UNCHANGED <<transforms, transform_dag, p_ids, p_out, p_node_i, p_id_i,
                 results, p_op, p_outcome, p_inferred, p_transforms0, p_adds,
                 p_runs, p_one>>
  /\ UNCHANGED <<teVars, storeVars>>

\* execute.py 139, 149: the sorter is no longer active: return results; line 152
\* then takes [id] of them, a KeyError when results has no such key
ReturnResults ==
  /\ p_pc = "loop"
  /\ p_node_i = Len(p_out)
  /\ ~TsIsActive(ts)
  /\ p_pc' = "idle"
  /\ p_outcome' = IF p_one # None /\ results[p_one] = NoResult
                    THEN "KeyError"
                    ELSE "ok"
  /\ UNCHANGED <<transforms, transform_dag, ts, p_ids, p_out, p_node_i,
                 p_id_i, results, p_op, p_done, p_inferred, p_transforms0,
                 p_adds, p_runs, p_one>>
  /\ UNCHANGED <<teVars, storeVars>>

(***************************************************************************)
(* Store: the trigger registry (store.py 181-304) and start / stop         *)
(* (store.py 306-327).                                                     *)
(***************************************************************************)
TriggerNames == {"t1", "t2"}

\* "namespace.field" for the fields of self.table_columns (store.py 227-231)
DirectKeys == {"chat.prompt"}
\* the strings croniter.is_valid accepts
CronKeys == {"* * * * *"}
\* neither
BadKeys == {"nosuch.field"}
AllKeys == DirectKeys \cup CronKeys \cup BadKeys

\* addTrigger is given at most MaxKeys keys
MaxKeys == 2
\* start() calls made at most under SpecStore and SpecLog
MaxStarts == 1

KeyLists == UNION {[1..n -> AllKeys] : n \in 0..MaxKeys}

\* what addTrigger can be given as trigger: a function of three parameters,
\* a function of two, a subclass of Trigger, another class, another object
Handlers == {"fn3", "fn2", "Cls", "OtherCls", "obj"}

IsFunction(t) == t \in {"fn3", "fn2"}
IsClass(t) == t \in {"Cls", "OtherCls"}
NParams(t) == IF t = "fn3" THEN 3 ELSE 2

\* store.py 207-224: the checks of the trigger's shape
HandlerOk(t) ==
  IF IsFunction(t) THEN NParams(t) = 3
  ELSE IF IsClass(t) THEN t = "Cls"
  ELSE FALSE

\* croniter.is_valid(key)
CronValid(key) == key \in CronKeys

\* store.py 233: the key is a known "namespace.field" or a cron expression
KeyOk(key) == key \in DirectKeys \/ CronValid(key)

\* store.py 245-249: an instance of the class, or the function itself
TriggerExec(t) == IF IsClass(t) THEN "Cls()" ELSE t

\* isinstance(fn, Trigger), store.py 278
IsTriggerInstance(fn) == fn = "Cls()"

NoKeys == [has |-> FALSE, keys |-> <<>>]
NoFn == [has |-> FALSE, fn |-> "none"]
NoList == [has |-> FALSE, list |-> <<>>]

\* TriggerFn(name, fn, isTransform)
TriggerFn(name, fn, isT) == [name |-> name, fn |-> fn, isTransform |-> isT]

\* store.py 254-261: self.index[key] = self.index.get(key, []) + [entry] for the
\* keys of the list, in order, that belong to this index
RECURSIVE FileAll(_, _, _, _, _)
FileAll(index, keys, i, entry, cron) ==
  IF i > Len(keys) THEN index
  ELSE IF CronValid(keys[i]) = cron
  THEN FileAll([index EXCEPT ![keys[i]] =
                  [has |-> TRUE, list |-> Append(@.list, entry)]],
               keys, i + 1, entry, cron)
  ELSE FileAll(index, keys, i + 1, entry, cron)

\* list.remove(entry): the list without the first element equal to entry
RemoveFirst(list, entry) ==
  LET hits == {i \in 1..Len(list) : list[i] = entry}
      first == CHOOSE i \in hits : \A j \in hits : i <= j
  IN [i \in 1..(Len(list) - 1) |->
        IF i < first THEN list[i] ELSE list[i + 1]]

\* store.py 275-281: for each key of the list, in order, remove the entry from
\* the key's list in its index.  ok turns FALSE, and the loop stops, where
\* Python raises: the key is no key of the index, or the entry is not in the
\* list.
RECURSIVE UnfileAll(_, _, _, _)
UnfileAll(reg, keys, i, entry) ==
  IF i > Len(keys) THEN reg
  ELSE LET key == keys[i]
           index == IF CronValid(key) THEN reg.cron_triggers ELSE reg.triggers
           found == /\ index[key].has
                    /\ \E j \in 1..Len(index[key].list) :
                         index[key].list[j] = entry
           index2 == [index EXCEPT ![key] =
                        [has |-> TRUE, list |-> RemoveFirst(@.list, entry)]]
       IN IF ~found THEN [reg EXCEPT !.ok = FALSE]
          ELSE IF CronValid(key)
          THEN UnfileAll([reg EXCEPT !.cron_triggers = index2], keys, i + 1,
                         entry)
          ELSE UnfileAll([reg EXCEPT !.triggers = index2], keys, i + 1, entry)

\* the four maps of the registry
registry == <<trigger_names, trigger_fns, triggers, cron_triggers>>

NoThreads == [has |-> FALSE, map |-> [k \in CronKeys |-> NoList]]

\* a method that returns None, or raises
NoReturn == [kind |-> "none"]

\* trigger versions found in the logs table are at most MaxVersion
MaxVersion == 2

\* store.py 107-112: CREATE TABLE IF NOT EXISTS keeps the rows of a database
\* opened from disk (memory = False); a new database has none
LogStates == [TriggerNames -> {None} \cup (0..MaxVersion)]
NoLogs == [n \in TriggerNames |-> None]

\* store.py 241-244: SELECT MAX(trigger_version) ... WHERE trigger_name = name,
\* then version[0] if version[0] else 0
TriggerVersion(name) ==
  IF logs[name] = None \/ logs[name] = 0 THEN 0 ELSE logs[name]

\* the store after Store.__init__ (store.py 41-86) on a database that may hold
\* logs already
StoreOpen ==
  /\ trigger_names = [n \in TriggerNames |-> NoKeys]
  /\ trigger_fns = [n \in TriggerNames |-> NoFn]
  /\ triggers = [k \in AllKeys |-> NoList]
  /\ cron_triggers = [k \in AllKeys |-> NoList]
  /\ listening = FALSE
  /\ cron_threads = NoThreads
  /\ workers = {}
  /\ n_starts = 0
  /\ s_op = [m |-> "none", name |-> "none", bad |-> FALSE]
  /\ s_outcome = "ok"
  /\ s_result = NoReturn
  /\ s_version = None
  /\ logs \in LogStates

\* the store after Store.__init__ (store.py 66-86)
StoreInit ==
  /\ trigger_names = [n \in TriggerNames |-> NoKeys]
  /\ trigger_fns = [n \in TriggerNames |-> NoFn]
  /\ triggers = [k \in AllKeys |-> NoList]
  /\ cron_triggers = [k \in AllKeys |-> NoList]
  /\ listening = FALSE
  /\ cron_threads = NoThreads
  /\ workers = {}
  /\ n_starts = 0
  /\ s_op = [m |-> "none", name |-> "none", bad |-> FALSE]
  /\ s_outcome = "ok"
  /\ s_result = NoReturn
  /\ s_version = None
  /\ logs = NoLogs

\* an addTrigger without the duplicate-name test of line 203
NameTakenNever(name) == FALSE

\* store.py 203: the name is a key of self.trigger_names
NameTaken(name) == trigger_names[name].has

\* a validation that looks at the first key only
SomeKeyInvalidFirst(keys) == Len(keys) > 0 /\ ~KeyOk(keys[1])

\* store.py 232-236: some key of the list is not valid
SomeKeyInvalid(keys) == \E i \in 1..Len(keys) : ~KeyOk(keys[i])

\* store.py 92-101: cursor() raises unless the store is listening
CursorRaises == ~listening

(***************************************************************************)
(* addTrigger(name, keys, trigger), store.py 181-261.                      *)
(***************************************************************************)
AddTrigger(name, keys, trigger) ==
  /\ s_op' = [m |-> "addTrigger", name |-> name,
              bad |-> \E i \in 1..Len(keys) : keys[i] \in BadKeys]
  /\ IF NameTaken(name)
       THEN /\ s_outcome' = "noop"
            /\ s_version' = None
            /\ UNCHANGED <<trigger_names, trigger_fns, triggers,
                           cron_triggers>>
       ELSE IF ~HandlerOk(trigger) \/ SomeKeyInvalid(keys)
       THEN /\ s_outcome' = "ValueError"
            /\ s_version' = None
            /\ UNCHANGED <<trigger_names, trigger_fns, triggers,
                           cron_triggers>>
       ELSE /\ s_version' = TriggerVersion(name)
            /\ trigger_names' =
                 [trigger_names EXCEPT ![name] = [has |-> TRUE, keys |-> keys]]
            /\ IF IsClass(trigger) /\ CursorRaises
                 THEN /\ s_outcome' = "Exception"
                      /\ UNCHANGED <<trigger_fns, triggers, cron_triggers>>
                 ELSE LET fn == TriggerExec(trigger)
                          entry == TriggerFn(name, fn, IsClass(trigger))
                      IN /\ trigger_fns' =
                              [trigger_fns EXCEPT
                                 ![name] = [has |-> TRUE, fn |-> fn]]
                         /\ triggers' =
                              FileAll(triggers, keys, 1, entry, FALSE)
                         /\ cron_triggers' =
                              FileAll(cron_triggers, keys, 1, entry, TRUE)
                         /\ s_outcome' = "ok"
  /\ s_result' = NoReturn
  /\ UNCHANGED <<listening, cron_threads, workers, n_starts, logs>>
  /\ UNCHANGED <<teVars, pipeVars>>

(***************************************************************************)
(* deleteTrigger(name), store.py 263-283.                                  *)
(***************************************************************************)
DeleteTrigger(name) ==
  /\ s_op' = [m |-> "deleteTrigger", name |-> name, bad |-> FALSE]
  /\ IF ~NameTaken(name)
       THEN /\ s_outcome' = "ValueError"
            /\ UNCHANGED <<trigger_names, trigger_fns, triggers,
                           cron_triggers>>
       ELSE IF ~trigger_fns[name].has
       THEN /\ s_outcome' = "KeyError"
            /\ UNCHANGED <<trigger_names, trigger_fns, triggers,
                           cron_triggers>>
       ELSE LET fn == trigger_fns[name].fn
                entry == TriggerFn(name, fn, IsTriggerInstance(fn))
                r == UnfileAll([triggers |-> triggers,
                                cron_triggers |-> cron_triggers, ok |-> TRUE],
                               trigger_names[name].keys, 1, entry)
            IN /\ triggers' = r.triggers
               /\ cron_triggers' = r.cron_triggers
               /\ IF r.ok
                    THEN /\ trigger_names' =
                              [trigger_names EXCEPT ![name] = NoKeys]
                         /\ trigger_fns' = [trigger_fns EXCEPT ![name] = NoFn]
                         /\ s_outcome' = "ok"
                    ELSE /\ s_outcome' = "ValueError"
                         /\ UNCHANGED <<trigger_names, trigger_fns>>
  /\ s_result' = NoReturn
  /\ s_version' = None
  /\ UNCHANGED <<listening, cron_threads, workers, n_starts, logs>>
  /\ UNCHANGED <<teVars, pipeVars>>

\* store.py 312-317: one TaskThread per entry of each list of the cron index,
\* named by the start() call that made it, its expression and its place
ThreadsFor(gen) ==
  [k \in CronKeys |->
     IF cron_triggers[k].has
     THEN [has |-> TRUE,
           list |-> [i \in 1..Len(cron_triggers[k].list) |->
                       [gen |-> gen, expr |-> k,
                        name |-> cron_triggers[k].list[i].name, i |-> i]]]
     ELSE NoList]

ThreadsIn(map) == UNION {Range(map[k].list) : k \in CronKeys}

\* start(), store.py 306-317
Start ==
  /\ n_starts' = n_starts + 1
  /\ listening' = TRUE
  /\ cron_threads' = [has |-> TRUE, map |-> ThreadsFor(n_starts + 1)]
  /\ workers' = workers \cup ThreadsIn(ThreadsFor(n_starts + 1))
  /\ s_op' = [m |-> "start", name |-> "none", bad |-> FALSE]
  /\ s_outcome' = "ok"
  /\ s_result' = NoReturn
  /\ s_version' = None
  /\ UNCHANGED <<trigger_names, trigger_fns, triggers, cron_triggers, logs>>
  /\ UNCHANGED <<teVars, pipeVars>>

\* stop(), store.py 319-327: self.cron_threads does not exist before start()
Stop ==
  /\ s_op' = [m |-> "stop", name |-> "none", bad |-> FALSE]
  /\ IF cron_threads.has
       THEN /\ workers' = workers \ ThreadsIn(cron_threads.map)
            /\ listening' = FALSE
            /\ s_outcome' = "ok"
       ELSE /\ s_outcome' = "AttributeError"
            /\ UNCHANGED <<workers, listening>>
  /\ s_result' = NoReturn
  /\ s_version' = None
  /\ UNCHANGED <<trigger_names, trigger_fns, triggers, cron_triggers,
                 cron_threads, n_starts, logs>>
  /\ UNCHANGED <<teVars, pipeVars>>

\* what getTriggersForKey can be given as namespace and key
Namespaces == {"chat", "nosuch"}
Fields == {"prompt", "field"}

\* store.py 295: f"{namespace}.{key}"; "unfiled" stands for the strings that
\* are no key addTrigger was ever given
QualifiedKey(ns, field) ==
  IF ns = "chat" /\ field = "prompt" THEN "chat.prompt"
  ELSE IF ns = "nosuch" /\ field = "field" THEN "nosuch.field"
  ELSE "unfiled"

\* store.py 295: self.triggers.get(key, [])
TriggersGet(key) ==
  IF key \in AllKeys /\ triggers[key].has THEN triggers[key].list ELSE <<>>

\* store.py 296: [t[0] for t in names_and_fns]
NamesOf(list) == [i \in 1..Len(list) |-> list[i].name]

\* store.py 304: self.triggers.keys()
KeysFiled == {k \in AllKeys : triggers[k].has}

\* store.py 285: getTriggersForKey(self, namespace, key) takes two arguments;
\* a call with another number of them raises TypeError
ArgsFit(nargs) == nargs = 2

\* getTriggersForKey(namespace, key), store.py 285-296
GetTriggersForKey(ns, field) ==
  /\ s_op' = [m |-> "getTriggersForKey", name |-> QualifiedKey(ns, field),
              bad |-> FALSE]
  /\ s_outcome' = "ok"
  /\ s_result' = [kind |-> "list",
                  list |-> NamesOf(TriggersGet(QualifiedKey(ns, field)))]
  /\ s_version' = None
  /\ UNCHANGED <<trigger_names, trigger_fns, triggers, cron_triggers,
                 listening, cron_threads, workers, n_starts, logs>>
  /\ UNCHANGED <<teVars, pipeVars>>

\* getTriggersForAllKeys(), store.py 298-304: the comprehension calls
\* self.getTriggersForKey(k), with one argument, for each key of self.triggers
GetTriggersForAllKeys ==
  /\ s_op' = [m |-> "getTriggersForAllKeys", name |-> "none", bad |-> FALSE]
  /\ IF KeysFiled # {} /\ ~ArgsFit(1)
       THEN /\ s_outcome' = "TypeError"
            /\ s_result' = NoReturn
       ELSE /\ s_outcome' = "ok"
            /\ s_result' =
                 [kind |-> "map",
                  map |-> [k \in AllKeys |->
                             IF k \in KeysFiled
                             THEN [has |-> TRUE,
                                   list |-> NamesOf(TriggersGet(k))]
                             ELSE NoList]]
  /\ s_version' = None
  /\ UNCHANGED <<trigger_names, trigger_fns, triggers, cron_triggers,
                 listening, cron_threads, workers, n_starts, logs>>
  /\ UNCHANGED <<teVars, pipeVars>>

(***************************************************************************)
(* The specifications.                                                     *)
(***************************************************************************)
\* the executor the pipeline and store specifications leave alone
TEFixed == TEInit /\ max_staleness = 0

Init == TEInit /\ PipeInit /\ StoreInit
InitFixed == TEFixed /\ PipeInit /\ StoreInit

\* one TransformExecutor
Next ==
  \/ \E id \in Ids, q \in TrainIdLists, ok \in BOOLEAN : Fit(id, q, ok)
  \/ \E id \in Ids, ok \in BOOLEAN, q \in TrainIdLists, fok \in BOOLEAN :
       Infer(id, ok, q, fok)
  \/ \E s \in StateVals : VersionState(s)
  \/ \E s \in StateVals : TransformSetState(s)
  \/ \E s \in StateVals : MutateActiveState(s)
  \/ TransformFitReturn
  \/ TransformFitRaise
  \/ TransformInferReturn
  \/ TransformInferRaise

Spec == Init /\ [][Next]_vars

\* one PipelineExecutor
PipeNext ==
  \/ \E n \in Names, deps \in SUBSET Names : AddTransform(n, deps)
  \/ \E ids \in Batches, order \in Perms(Names) \cup
                                     UNION {Perms(S) : S \in SUBSET Names} :
       ExecuteMany(ids, order)
  \/ \E id \in 0..MaxPipeId, order \in Perms(Names) \cup
                                     UNION {Perms(S) : S \in SUBSET Names} :
       ExecuteOne(id, order)
  \/ GetReady
  \/ TakeNode
  \/ \E kind \in Kinds, val \in {"a"} : InferNext(kind, val)
  \/ NodeDone
  \/ ReturnResults

SpecPipe == InitFixed /\ [][PipeNext]_vars

\* one Store
StoreNext ==
  \/ \E n \in TriggerNames, keys \in KeyLists, t \in Handlers :
       AddTrigger(n, keys, t)
  \/ \E n \in TriggerNames : DeleteTrigger(n)
  \/ (n_starts < MaxStarts /\ Start)
  \/ Stop

SpecStore == InitFixed /\ [][StoreNext]_vars

\* one Store and its read accessors
ReadHandlers == {"fn3", "fn2"}

ReadNext ==
  \/ \E n \in TriggerNames, keys \in KeyLists, t \in ReadHandlers :
       AddTrigger(n, keys, t)
  \/ \E n \in TriggerNames : DeleteTrigger(n)
  \/ \E ns \in Namespaces, f \in Fields : GetTriggersForKey(ns, f)
  \/ GetTriggersForAllKeys

SpecRead == InitFixed /\ [][ReadNext]_vars

\* one Store and its cron workers: start() calls made at most
MaxLifeStarts == 2
\* the key lists and triggers that matter to the workers
LifeKeyLists == UNION {[1..n -> CronKeys] : n \in 0..MaxKeys}
LifeHandlers == {"fn3", "Cls"}

LifeNext ==
  \/ \E n \in TriggerNames, keys \in LifeKeyLists, t \in LifeHandlers :
       AddTrigger(n, keys, t)
  \/ \E n \in TriggerNames : DeleteTrigger(n)
  \/ (n_starts < MaxLifeStarts /\ Start)
  \/ Stop

SpecLife == InitFixed /\ [][LifeNext]_vars

\* one Store opened on a database that may hold logs
InitLog == TEFixed /\ PipeInit /\ StoreOpen
LogKeyLists == UNION {[1..n -> DirectKeys \cup CronKeys] : n \in 0..1}

LogNext ==
  \/ \E n \in TriggerNames, keys \in LogKeyLists, t \in Handlers :
       AddTrigger(n, keys, t)
  \/ \E n \in TriggerNames : DeleteTrigger(n)
  \/ (n_starts < MaxStarts /\ Start)

SpecLog == InitLog /\ [][LogNext]_vars

(***************************************************************************)
(* The claims about the TransformExecutor, checked under Spec.             *)
(***************************************************************************)
\* an infer(id) call enters: the step from the idle executor that sets op
InferEnters == pc = "idle" /\ op' = "infer"
\* ... and its features passed the type check of execute.py 88
InferChecked == InferEnters /\ ~(outcome' = "TypeError" /\ nfit' = 0)

\* the snapshots infer(id) may reuse under staleness s
Fresh(h, id, s) == {v \in Keys(h) : id - s <= v /\ v <= id}

\* C1: infer(id) uses the snapshot at the greatest version v with
\* id - max_staleness <= v <= id when there is one, and calls fit(id) only
\* when there is none; for every id, id 0 included.
C1_InferUsesFreshestSnapshot ==
  [][InferChecked =>
       LET Q == Fresh(state_history, arg', max_staleness)
       IN IF Q # {}
          THEN /\ nfit' = 0
               /\ version' = SetMax(Q)
               /\ tstate' = Snap(SetMax(Q))
          ELSE nfit' = 1]_vars

\* C2: once state_history[v] is written, its value never changes, whatever
\* fit, infer and versionState calls follow and whatever the transform does
\* to its active state during infer.
C2_SnapshotNeverChanges ==
  [][\A v \in Keys(state_history) : state_history'[v] = state_history[v]]_vars

FitPcs == {"fit", "infer_fit"}
\* a versionState call made while no call is in progress on the executor
IdleVersionState == pc = "idle" /\ op' = "versionState"

\* C3: the fit cursor is set exactly during a fit call, and a
\* versionState call made before any fit or after a fit has returned is
\* rejected with an error and leaves state_history unchanged.
C3_CursorOnlyDuringFit ==
  [][/\ (step' # None) <=> (pc' \in FitPcs)
     /\ IdleVersionState =>
          outcome' = "ValueError" /\ state_history' = state_history]_vars

\* the fit that infer called has come back from transform.fit without raising
InferFitReturns ==
  op = "infer" /\ pc = "infer_fit" /\ pc' # "infer_fit"
    /\ outcome' # "TransformError"

\* C4: infer(id) on an executor with an empty state_history (whose features
\* pass the type check) enters fit exactly once, with id; and once that fit
\* has run, state_history has a snapshot keyed by id and infer goes on to use
\* it, whether or not transform.fit called versionState.
C4_InferOnEmptyFitsOnce ==
  [][/\ (InferChecked /\ Keys(state_history) = {}) =>
          /\ nfit' = 1
          /\ ranfit' => step' = arg'
     /\ InferFitReturns =>
          /\ state_history'[arg] \in StateVals
          /\ pc' = "infer"]_vars

\* C5: when state_history holds a snapshot v with
\* id - max_staleness <= v <= id, infer(id) does not call fit and leaves
\* state_history unchanged; so infer(id) twice in a row retrains at most once.
C5_FreshSnapshotNoRefit ==
  [][(InferChecked /\ Fresh(state_history, arg', max_staleness) # {}) =>
       nfit' = 0 /\ state_history' = state_history]_vars

\* a fit(id) is entered: by fit itself or by infer
FitEnters == pc = "idle" /\ nfit' = 1

\* C6: when the store's ids-before answer holds id, fit(id) fails before
\* transform.fit runs and leaves the fit cursor and state_history unchanged;
\* otherwise the training set handed to transform.fit is built from exactly
\* the ids of that answer, and id is not among them.
C6_FitNeverTrainsOnSelf ==
  [][FitEnters =>
       IF InList(arg', ids_before')
       THEN /\ outcome' = "AssertionError"
            /\ ~ranfit'
            /\ pc' = "idle"
            /\ step' = step
            /\ state_history' = state_history
       ELSE ranfit' =>
              /\ trained' = ids_before'
              /\ ~InList(arg', trained')]_vars

\* a fit failed on its own id while the cursor was set by an earlier fit
C6_Witness ==
  /\ op = "fit" /\ outcome = "AssertionError" /\ InList(arg, ids_before)
  /\ fitted /\ step # arg

\* an infer call ends after line 107 has put the snapshot in place
InferEndsSubstituted == op = "infer" /\ pc = "infer" /\ pc' = "idle"

\* C17: when infer returns, or fails after the snapshot has been substituted,
\* transform.state is again what it was just before the substitution.
C17_InferRestoresState ==
  [][InferEndsSubstituted => tstate' = old_state]_vars

(***************************************************************************)
(* The claims about the PipelineExecutor, checked under SpecPipe.          *)
(***************************************************************************)
\* C7: executemany never invokes infer on a node before every declared
\* dependency of the node has had infer invoked for every id of the batch and
\* has been marked done.
C7_DependenciesFirst ==
  p_op = "executemany" =>
    \A n \in Names :
      p_inferred[n] # <<>> =>
        \A d \in DagDeps(transform_dag, n) :
          d \in p_done /\ p_inferred[d] = p_ids

\* a node with a dependency has had infer invoked, in a batch of two ids
C7_Witness ==
  /\ p_op = "executemany"
  /\ Len(p_ids) = 2
  /\ \E n \in Names :
       p_inferred[n] # <<>> /\ DagDeps(transform_dag, n) # {}

\* the graph has a cycle: a set of nodes each with a dependency in the set
GraphHasCycle(d) ==
  \E S \in SUBSET Names :
    S # {} /\ \A n \in S : DagDeps(d, n) \cap S # {}

\* C8: when the dependency graph has a cycle, executemany fails before infer
\* is invoked on any node, so no executor's state_history changes.
C8_CycleFailsBeforeAnyNode ==
  (p_op = "executemany" /\ GraphHasCycle(transform_dag)) =>
    /\ p_outcome = "CycleError"
    /\ p_pc = "idle"
    /\ \A n \in Names : p_inferred[n] = <<>>
    /\ transforms = p_transforms0

\* executemany failed on a cycle although a registered node has no dependency
C8_Witness ==
  /\ p_op = "executemany" /\ p_outcome = "CycleError" /\ p_ids # <<>>
  /\ \E i \in 1..Len(transform_dag) : transform_dag[i].deps = {}

\* executemany has returned its results
Returned == p_op = "executemany" /\ p_pc = "idle" /\ p_outcome = "ok"

Registered == {n \in Names : transforms[n].reg}

\* the node processed last by the executemany that returned
LastNode == p_out[Len(p_out)]

\* every registered transform had infer invoked once per element of the batch,
\* in batch order, and no other node had
InferredPerBatch ==
  \A n \in Names :
    p_inferred[n] = IF n \in Registered THEN p_ids ELSE <<>>

\* results has one entry per distinct id of the batch, the result of the node
\* processed last for that id, and no other entry
ResultsOfLastNode ==
  \A id \in Ids :
    IF id \in Range(p_ids)
    THEN /\ results[id] # NoResult
         /\ results[id].id = id
         /\ results[id].node = LastNode
    ELSE results[id] = NoResult

\* C18, as stated: executemany(ids) invokes infer on every registered
\* transform once per element of ids, in batch order, and returns a mapping
\* with exactly one entry per distinct id, the result of the node processed
\* last for that id; executeone(id) returns executemany([id])[id].
C18_ResultsPerId ==
  /\ Returned => InferredPerBatch /\ ResultsOfLastNode
  /\ (Returned /\ p_one # None) =>
       p_ids = <<p_one>> /\ results[p_one] # NoResult

\* C18, amended: that holds for a pipeline with at least one registered
\* transform.  With none, executemany returns the empty mapping whatever the
\* ids, and executeone raises KeyError.
C18_ResultsPerIdSomeTransform ==
  /\ Returned =>
       /\ InferredPerBatch
       /\ IF Registered # {} THEN ResultsOfLastNode
          ELSE results = EmptyResults
  /\ (Returned /\ p_one # None) =>
       /\ p_ids = <<p_one>>
       /\ results[p_one] # NoResult
       /\ Registered # {}
  /\ (p_op = "executemany" /\ p_pc = "idle" /\ p_one # None
        /\ Registered = {}) =>
       p_outcome = "KeyError" /\ results = EmptyResults

\* executemany returned from two nodes and a batch of two distinct ids
C18_Witness ==
  /\ Returned
  /\ Cardinality(Registered) >= 2
  /\ Len(p_ids) = 2 /\ p_ids[1] # p_ids[2]
  /\ results[p_ids[1]].node = LastNode

\* a registered transform names a dependency that addTransform never saw
UnregisteredDependency ==
  \E n \in Names :
    /\ transforms[n].reg
    /\ \E d \in DagDeps(transform_dag, n) : ~transforms[d].reg

\* C20: when a transform was added with a dependency that was never itself
\* registered, executemany fails, and it fails before infer is invoked on any
\* node.
C20_UnregisteredDependencyFailsFirst ==
  (p_op = "executemany" /\ UnregisteredDependency) =>
    /\ \A n \in Names : p_inferred[n] = <<>>
    /\ p_pc = "idle" => p_outcome \in {"KeyError", "CycleError"}

(***************************************************************************)
(* The claims about the trigger registry, checked under SpecStore.         *)
(***************************************************************************)
\* the last call was addTrigger with a key list holding an invalid key
AddedBadKey == s_op'.m = "addTrigger" /\ s_op'.bad

Without(list, n) == SelectSeq(list, LAMBDA e : e.name # n)

\* C10: deleteTrigger(name) on a registered name removes the trigger's
\* entries from every list of both indices and the name from the name and
\* handler maps, and leaves the other triggers' entries and their order as
\* they were; on an unknown name it raises and changes nothing.
C10_DeleteRemovesEverywhere ==
  [][\A n \in TriggerNames :
       (s_op'.m = "deleteTrigger" /\ s_op'.name = n) =>
         IF trigger_names[n].has
         THEN /\ ~trigger_names'[n].has
              /\ ~trigger_fns'[n].has
              /\ \A k \in AllKeys :
                   /\ triggers'[k].list = Without(triggers[k].list, n)
                   /\ cron_triggers'[k].list =
                        Without(cron_triggers[k].list, n)
              /\ \A m \in TriggerNames \ {n} :
                   /\ trigger_names'[m] = trigger_names[m]
                   /\ trigger_fns'[m] = trigger_fns[m]
         ELSE s_outcome' = "ValueError" /\ registry' = registry]_vars

\* the greatest trigger_version logged for the name, 0 when the log has no row
MaxLogged(name) == IF logs[name] = None THEN 0 ELSE logs[name]

\* C11: the version addTrigger computes for a trigger name, and passes to a
\* stateful handler's constructor, is 1 + the greatest trigger_version logged
\* for the name, the greatest being 0 when there is no row; so 1 for a first
\* registration.  Checked under SpecLog.
C11_VersionIsOnePastLogged ==
  [][(s_op'.m = "addTrigger" /\ s_version' # None) =>
       s_version' = 1 + MaxLogged(s_op'.name)]_vars

\* C12: stop() completes without error in every lifecycle state, before any
\* start() and after an earlier stop() too, and leaves the store not listening
\* with no worker running.  Checked under SpecLife.
C12_StopAlwaysSafe ==
  [][s_op'.m = "stop" =>
       s_outcome' = "ok" /\ ~listening' /\ workers' = {}]_vars

\* C13: from the return of stop() until start() is called again no worker
\* spawned by any earlier start() is left, whatever sequence of start() and
\* stop() calls came before.  Checked under SpecLife.
C13_NoWorkerWhileStopped == ~listening => workers = {}

\* the workers alive for the trigger name n under cron expression k
WorkersOf(ws, k, n) == {w \in ws : w.expr = k /\ w.name = n}

\* the trigger names filed under cron expression k
CronNames(index, k) == {index[k].list[i].name : i \in 1..Len(index[k].list)}

\* C14: there is never more than one live worker per pair of cron expression
\* and handler, and right after start() there is exactly one for each pair in
\* the cron index.  Checked under SpecLife.
C14_OneWorkerPerPair ==
  [][/\ \A k \in CronKeys, n \in TriggerNames :
          Cardinality(WorkersOf(workers', k, n)) <= 1
     /\ s_op'.m = "start" =>
          \A k \in CronKeys :
            \A n \in CronNames(cron_triggers', k) :
              Cardinality(WorkersOf(workers', k, n)) = 1]_vars

C16_ReadsOfDirectIndex ==
  [][/\ s_op'.m = "getTriggersForAllKeys" =>
          /\ s_outcome' = "ok"
          /\ s_result'.kind = "map"
          /\ \A k \in AllKeys :
               s_result'.map[k] =
                 IF triggers[k].has
                 THEN [has |-> TRUE, list |-> NamesOf(triggers[k].list)]
                 ELSE NoList
          /\ registry' = registry
     /\ s_op'.m = "getTriggersForKey" =>
          /\ s_outcome' = "ok"
          /\ s_result'.kind = "list"
          /\ s_op'.name \in AllKeys =>
               s_result'.list = NamesOf(triggers[s_op'.name].list)
          /\ registry' = registry]_vars

\* the trigger names with an entry in a list of either index under key k
FiledUnder(k) ==
  {triggers[k].list[i].name : i \in 1..Len(triggers[k].list)} \cup
  {cron_triggers[k].list[i].name : i \in 1..Len(cron_triggers[k].list)}

\* C19: after every addTrigger and deleteTrigger call, failed ones included,
\* trigger_names and trigger_fns have the same names, and a name has an entry
\* in an index list for key k exactly when k is one of its registered keys; a
\* failed addTrigger leaves the name unregistered.  Checked under SpecStore.
C19_RegistryConsistent ==
  [][/\ \A n \in TriggerNames :
          /\ trigger_names'[n].has <=> trigger_fns'[n].has
          /\ \A k \in AllKeys :
               n \in FiledUnder(k)' <=>
                 (trigger_names'[n].has /\ k \in Range(trigger_names'[n].keys))
     /\ (s_op'.m = "addTrigger" /\ s_outcome' \in {"ValueError", "Exception"})
          => ~trigger_names'[s_op'.name].has]_vars

====
